---- MODULE Spec2Model ----
(***************************************************************************)
(* supabase-service-manager: the Result envelope, the three services       *)
(* (AuthService, UserService, CrudService) and the ServiceManager facade,  *)
(* run against a Supabase backend whose every call may answer, report an   *)
(* error, answer without a payload, or throw.                              *)
(***************************************************************************)
EXTENDS Integers, Sequences, FiniteSets, TLC

VARIABLES
  account,   \* the backend's stored account record (raw Supabase user), or Null
  session,   \* per client handle: whether that handle holds a signed-in session
  rows,      \* the backend table: the set of stored rows
  inv        \* per caller: the public call in progress (or idle)

vars == <<account, session, rows, inv>>

(***************************************************************************)
(* JavaScript values.  Objects are records; "no object" is Null; a string  *)
(* that may be missing is a string or Undefined.                           *)
(***************************************************************************)
Null == [null |-> TRUE]
Void == [undefined |-> TRUE]
Undefined == "<undefined>"
EmptyObject == [k \in {} |-> ""]

\* JS truthiness of a string-or-undefined value
Truthy(v) == v \notin {Undefined, ""}

\* JS a || b on string-or-undefined values
Or(a, b) == IF Truthy(a) THEN a ELSE b

\* JS obj?.key / obj.key on an object used as a map: undefined when absent
Get(obj, key) == IF key \in DOMAIN obj THEN obj[key] ELSE Undefined

\* JS {...a, ...b}
Spread(a, b) ==
  [k \in (DOMAIN a) \cup (DOMAIN b) |-> IF k \in DOMAIN b THEN b[k] ELSE a[k]]

\* new Error(message): a fresh Error object made by the library
NewError(message) == [isError |-> TRUE, message |-> message, origin |-> "library"]

\* the TypeError the runtime raises on reading a property of null/undefined
TypeError ==
  [isError |-> TRUE, message |-> "Cannot read properties of null", origin |-> "runtime"]

(***************************************************************************)
(* Result envelope (types/result)                                          *)
(***************************************************************************)
createSuccess(data) == [success |-> TRUE, data |-> data]

\* seeded fault: a failure that also carries a data field
createFailureWithData(error) == [success |-> FALSE, error |-> error, data |-> Null]

createFailure(error) == [success |-> FALSE, error |-> error]

isSuccess(result) == result.success = TRUE

isFailure(result) == result.success = FALSE

(***************************************************************************)
(* Control flow of one async method: the try body either returns a value,  *)
(* throws a value, or suspends on a further backend call.                  *)
(***************************************************************************)
Return(value) == [type |-> "return", value |-> value]

Throw(value) == [type |-> "throw", value |-> value]

Await(call) == [type |-> "await", call |-> call]

\* seeded fault: the catch lets the thrown value escape
CatchRethrows(step, fallback) == step

\* seeded fault: the catch always wraps, copying a thrown Error into a new one
CatchWrapsAlways(step, fallback) ==
  IF step.type = "throw"
    THEN Return(createFailure(NewError(
           IF step.value.isError THEN step.value.message ELSE fallback)))
    ELSE step

\* catch (error) { return createFailure(error instanceof Error ? error : new Error(fallback)) }
Catch(step, fallback) ==
  IF step.type = "throw"
    THEN Return(createFailure(
           IF step.value.isError THEN step.value ELSE NewError(fallback)))
    ELSE step

\* const {data, error} = await call: the outcome o either throws, or yields a
\* response object; destructuring undefined throws a TypeError
Rejected(o) == o.throws

NoResponse(o) == ~o.throws /\ o.resp = Null

(***************************************************************************)
(* User and session mapping (AuthService / UserService private helpers)    *)
(***************************************************************************)
AuthService_mapSupabaseUserToUser(supabaseUser) ==
  [id |-> supabaseUser.id,
   email |-> supabaseUser.email,
   firstName |-> Or(Get(supabaseUser.user_metadata, "firstName"),
                    Get(supabaseUser.user_metadata, "first_name")),
   lastName |-> Or(Get(supabaseUser.user_metadata, "lastName"),
                   Get(supabaseUser.user_metadata, "last_name")),
   avatar |-> Or(Get(supabaseUser.user_metadata, "avatar"),
                 Get(supabaseUser.user_metadata, "avatar_url")),
   emailVerified |-> Truthy(supabaseUser.email_confirmed_at),
   createdAt |-> supabaseUser.created_at,
   updatedAt |-> supabaseUser.updated_at]

mapSupabaseSessionToAuthSession(supabaseSession, user) ==
  [user |-> user,
   accessToken |-> supabaseSession.access_token,
   refreshToken |-> supabaseSession.refresh_token,
   expiresAt |-> supabaseSession.expires_at]

\* seeded fault: mapping that reads avatar only, with no avatar_url fallback
UserService_mapSupabaseUserToUser_noAvatarUrl(supabaseUser) ==
  [id |-> supabaseUser.id,
   email |-> supabaseUser.email,
   firstName |-> Or(Get(supabaseUser.user_metadata, "firstName"),
                    Get(supabaseUser.user_metadata, "first_name")),
   lastName |-> Or(Get(supabaseUser.user_metadata, "lastName"),
                   Get(supabaseUser.user_metadata, "last_name")),
   avatar |-> Get(supabaseUser.user_metadata, "avatar"),
   emailVerified |-> Truthy(supabaseUser.email_confirmed_at),
   createdAt |-> supabaseUser.created_at,
   updatedAt |-> supabaseUser.updated_at]

UserService_mapSupabaseUserToUser(supabaseUser) ==
  [id |-> supabaseUser.id,
   email |-> supabaseUser.email,
   firstName |-> Or(Get(supabaseUser.user_metadata, "firstName"),
                    Get(supabaseUser.user_metadata, "first_name")),
   lastName |-> Or(Get(supabaseUser.user_metadata, "lastName"),
                   Get(supabaseUser.user_metadata, "last_name")),
   avatar |-> Or(Get(supabaseUser.user_metadata, "avatar"),
                 Get(supabaseUser.user_metadata, "avatar_url")),
   emailVerified |-> Truthy(supabaseUser.email_confirmed_at),
   createdAt |-> supabaseUser.created_at,
   updatedAt |-> supabaseUser.updated_at]

(***************************************************************************)
(* Construction: the facade creates one client and hands it to the user    *)
(* and crud services; the auth service creates a client of its own.        *)
(***************************************************************************)
createClient(n) == [client |-> n]

AuthService_constructor(config) == [supabase |-> createClient(2)]

UserService_constructor(supabaseClient) == [supabase |-> supabaseClient]

CrudService_constructor(supabaseClient) == [supabase |-> supabaseClient]

\* seeded fault: the user service is built on the authentication service's client
ServiceManager_constructor_userOnAuthClient(config) ==
  LET supabase == createClient(1)
      authService == AuthService_constructor(config)
  IN [supabase |-> supabase,
      authService |-> authService,
      userService |-> UserService_constructor(authService.supabase),
      crudService |-> CrudService_constructor(supabase)]

ServiceManager_constructor(config) ==
  LET supabase == createClient(1) IN
  [supabase |-> supabase,
   authService |-> AuthService_constructor(config),
   userService |-> UserService_constructor(supabase),
   crudService |-> CrudService_constructor(supabase)]

Config == [url |-> "https://project.supabase.co", anonKey |-> "anon-key"]

serviceManager == ServiceManager_constructor(Config)

Handles == {serviceManager.supabase, serviceManager.authService.supabase}

\* a backend call issued through a client handle
Call(op, supabase, arg) == [op |-> op, handle |-> supabase, arg |-> arg]

(***************************************************************************)
(* AuthService.  Each method is given as the backend call(s) it issues and *)
(* what its body does with the outcome o of the call it awaited.           *)
(***************************************************************************)
AuthService_signUp_call(this, args) ==
  Call("auth.signUp", this.supabase,
       [email |-> args.email, password |-> args.password,
        data |-> IF args.profile = Void THEN EmptyObject ELSE args.profile])

\* seeded fault: signUp without the !data.user check
AuthService_signUp_acceptsNoUser(o) ==
  IF Rejected(o) THEN Throw(o.value)
  ELSE IF NoResponse(o) THEN Throw(TypeError)
  ELSE IF o.resp.error # Null
    THEN Return(createFailure(NewError(o.resp.error.message)))
  ELSE IF o.resp.data = Null THEN Throw(TypeError)
  ELSE IF o.resp.data.user = Null THEN Return(createSuccess(Null))
  ELSE Return(createSuccess(
         [user |-> AuthService_mapSupabaseUserToUser(o.resp.data.user),
          needsVerification |-> ~Truthy(o.resp.data.user.email_confirmed_at)]))

\* seeded fault: signUp that ignores email_confirmed_at
AuthService_signUp_alwaysNeedsVerification(o) ==
  IF Rejected(o) THEN Throw(o.value)
  ELSE IF NoResponse(o) THEN Throw(TypeError)
  ELSE IF o.resp.error # Null
    THEN Return(createFailure(NewError(o.resp.error.message)))
  ELSE IF o.resp.data = Null THEN Throw(TypeError)
  ELSE IF o.resp.data.user = Null
    THEN Return(createFailure(NewError("User creation failed")))
  ELSE Return(createSuccess(
         [user |-> AuthService_mapSupabaseUserToUser(o.resp.data.user),
          needsVerification |-> TRUE]))

AuthService_signUp_try(o) ==
  IF Rejected(o) THEN Throw(o.value)
  ELSE IF NoResponse(o) THEN Throw(TypeError)
  ELSE IF o.resp.error # Null
    THEN Return(createFailure(NewError(o.resp.error.message)))
  ELSE IF o.resp.data = Null THEN Throw(TypeError)
  ELSE IF o.resp.data.user = Null
    THEN Return(createFailure(NewError("User creation failed")))
  ELSE Return(createSuccess(
         [user |-> AuthService_mapSupabaseUserToUser(o.resp.data.user),
          needsVerification |-> ~Truthy(o.resp.data.user.email_confirmed_at)]))

AuthService_signUp(o) == Catch(AuthService_signUp_try(o), "Sign up failed")

AuthService_signIn_call(this, args) ==
  Call("auth.signInWithPassword", this.supabase,
       [email |-> args.email, password |-> args.password])

\* seeded fault: the session carries the backend's user object, not the mapped user
AuthService_signIn_rawSessionUser(o) ==
  IF Rejected(o) THEN Throw(o.value)
  ELSE IF NoResponse(o) THEN Throw(TypeError)
  ELSE IF o.resp.error # Null
    THEN Return(createFailure(NewError(o.resp.error.message)))
  ELSE IF o.resp.data = Null THEN Throw(TypeError)
  ELSE IF o.resp.data.user = Null \/ o.resp.data.session = Null
    THEN Return(createFailure(NewError("Sign in failed")))
  ELSE LET user == AuthService_mapSupabaseUserToUser(o.resp.data.user) IN
       Return(createSuccess(
         [user |-> user,
          session |-> mapSupabaseSessionToAuthSession(o.resp.data.session,
                                                      o.resp.data.session.user)]))

AuthService_signIn_try(o) ==
  IF Rejected(o) THEN Throw(o.value)
  ELSE IF NoResponse(o) THEN Throw(TypeError)
  ELSE IF o.resp.error # Null
    THEN Return(createFailure(NewError(o.resp.error.message)))
  ELSE IF o.resp.data = Null THEN Throw(TypeError)
  ELSE IF o.resp.data.user = Null \/ o.resp.data.session = Null
    THEN Return(createFailure(NewError("Sign in failed")))
  ELSE LET user == AuthService_mapSupabaseUserToUser(o.resp.data.user) IN
       Return(createSuccess(
         [user |-> user,
          session |-> mapSupabaseSessionToAuthSession(o.resp.data.session, user)]))

AuthService_signIn(o) == Catch(AuthService_signIn_try(o), "Sign in failed")

AuthService_signOut_call(this, args) == Call("auth.signOut", this.supabase, EmptyObject)

AuthService_signOut_try(o) ==
  IF Rejected(o) THEN Throw(o.value)
  ELSE IF NoResponse(o) THEN Throw(TypeError)
  ELSE IF o.resp.error # Null
    THEN Return(createFailure(NewError(o.resp.error.message)))
  ELSE Return(createSuccess(Void))

AuthService_signOut(o) == Catch(AuthService_signOut_try(o), "Sign out failed")

AuthService_getCurrentUser_call(this, args) ==
  Call("auth.getUser", this.supabase, EmptyObject)

\* const {data: {user}, error} = ...: the nested pattern reads data.user first
AuthService_getCurrentUser_try(o) ==
  IF Rejected(o) THEN Throw(o.value)
  ELSE IF NoResponse(o) \/ o.resp.data = Null THEN Throw(TypeError)
  ELSE IF o.resp.error # Null
    THEN Return(createFailure(NewError(o.resp.error.message)))
  ELSE IF o.resp.data.user = Null THEN Return(createSuccess(Null))
  ELSE Return(createSuccess(AuthService_mapSupabaseUserToUser(o.resp.data.user)))

AuthService_getCurrentUser(o) ==
  Catch(AuthService_getCurrentUser_try(o), "Failed to get current user")

AuthService_getCurrentSession_call(this, args) ==
  Call("auth.getSession", this.supabase, EmptyObject)

\* seeded fault: getCurrentSession that asks again when the backend reports an error
AuthService_getCurrentSession_retries(o) ==
  IF Rejected(o) THEN Throw(o.value)
  ELSE IF NoResponse(o) \/ o.resp.data = Null THEN Throw(TypeError)
  ELSE IF o.resp.error # Null
    THEN Await(Call("auth.getSession", serviceManager.authService.supabase, EmptyObject))
  ELSE IF o.resp.data.session = Null THEN Return(createSuccess(Null))
  ELSE LET user == AuthService_mapSupabaseUserToUser(o.resp.data.session.user) IN
       Return(createSuccess(
         mapSupabaseSessionToAuthSession(o.resp.data.session, user)))

AuthService_getCurrentSession_try(o) ==
  IF Rejected(o) THEN Throw(o.value)
  ELSE IF NoResponse(o) \/ o.resp.data = Null THEN Throw(TypeError)
  ELSE IF o.resp.error # Null
    THEN Return(createFailure(NewError(o.resp.error.message)))
  ELSE IF o.resp.data.session = Null THEN Return(createSuccess(Null))
  ELSE LET user == AuthService_mapSupabaseUserToUser(o.resp.data.session.user) IN
       Return(createSuccess(
         mapSupabaseSessionToAuthSession(o.resp.data.session, user)))

AuthService_getCurrentSession(o) ==
  Catch(AuthService_getCurrentSession_try(o), "Failed to get current session")

AuthService_resendVerificationEmail_call(this, args) ==
  Call("auth.getUser", this.supabase, EmptyObject)

\* seeded fault: resend issued without the !user check
AuthService_resendVerificationEmail_resendsWithoutUser(stage, this, o) ==
  IF stage = 1
    THEN IF Rejected(o) THEN Throw(o.value)
         ELSE IF NoResponse(o) \/ o.resp.data = Null THEN Throw(TypeError)
         ELSE Await(Call("auth.resend", this.supabase,
                         [type |-> "signup",
                          email |-> IF o.resp.data.user = Null
                                      THEN Undefined ELSE o.resp.data.user.email]))
    ELSE IF Rejected(o) THEN Throw(o.value)
         ELSE IF NoResponse(o) THEN Throw(TypeError)
         ELSE IF o.resp.error # Null
           THEN Return(createFailure(NewError(o.resp.error.message)))
         ELSE Return(createSuccess(Void))

\* stage 1 resumes after getUser (its error is not read), stage 2 after resend
AuthService_resendVerificationEmail_try(stage, this, o) ==
  IF stage = 1
    THEN IF Rejected(o) THEN Throw(o.value)
         ELSE IF NoResponse(o) \/ o.resp.data = Null THEN Throw(TypeError)
         ELSE IF o.resp.data.user = Null
           THEN Return(createFailure(NewError("No authenticated user found")))
         ELSE Await(Call("auth.resend", this.supabase,
                         [type |-> "signup", email |-> o.resp.data.user.email]))
    ELSE IF Rejected(o) THEN Throw(o.value)
         ELSE IF NoResponse(o) THEN Throw(TypeError)
         ELSE IF o.resp.error # Null
           THEN Return(createFailure(NewError(o.resp.error.message)))
         ELSE Return(createSuccess(Void))

AuthService_resendVerificationEmail(stage, this, o) ==
  Catch(AuthService_resendVerificationEmail_try(stage, this, o),
        "Failed to resend verification email")

(***************************************************************************)
(* UserService                                                             *)
(***************************************************************************)
UserService_updateProfile_call(this, args) ==
  Call("auth.getUser", this.supabase, EmptyObject)

\* seeded fault: updateUser issued without the getUserError and !user checks
UserService_updateProfile_writesWithoutUser(stage, this, updates, o) ==
  IF stage = 1
    THEN IF Rejected(o) THEN Throw(o.value)
         ELSE IF NoResponse(o) \/ o.resp.data = Null THEN Throw(TypeError)
         ELSE Await(Call("auth.updateUser", this.supabase,
                         [data |-> IF o.resp.data.user = Null
                                     THEN updates
                                     ELSE Spread(o.resp.data.user.user_metadata, updates)]))
    ELSE IF Rejected(o) THEN Throw(o.value)
         ELSE IF NoResponse(o) THEN Throw(TypeError)
         ELSE IF o.resp.error # Null
           THEN Return(createFailure(NewError(o.resp.error.message)))
         ELSE IF o.resp.data = Null THEN Throw(TypeError)
         ELSE IF o.resp.data.user = Null
           THEN Return(createFailure(NewError("Profile update failed")))
         ELSE Return(createSuccess(UserService_mapSupabaseUserToUser(o.resp.data.user)))

\* seeded fault: the write also carries an email attribute beside the metadata
UserService_updateProfile_writesEmail(stage, this, updates, o) ==
  IF stage = 1
    THEN IF Rejected(o) THEN Throw(o.value)
         ELSE IF NoResponse(o) \/ o.resp.data = Null THEN Throw(TypeError)
         ELSE IF o.resp.error # Null
           THEN Return(createFailure(NewError(o.resp.error.message)))
         ELSE IF o.resp.data.user = Null
           THEN Return(createFailure(NewError("No authenticated user found")))
         ELSE Await(Call("auth.updateUser", this.supabase,
                         [email |-> "other@example.com",
                          data |-> Spread(o.resp.data.user.user_metadata, updates)]))
    ELSE IF Rejected(o) THEN Throw(o.value)
         ELSE IF NoResponse(o) THEN Throw(TypeError)
         ELSE IF o.resp.error # Null
           THEN Return(createFailure(NewError(o.resp.error.message)))
         ELSE IF o.resp.data = Null THEN Throw(TypeError)
         ELSE IF o.resp.data.user = Null
           THEN Return(createFailure(NewError("Profile update failed")))
         ELSE Return(createSuccess(UserService_mapSupabaseUserToUser(o.resp.data.user)))

\* seeded fault: the write carries the updates alone, without the metadata read
UserService_updateProfile_updatesOnly(stage, this, updates, o) ==
  IF stage = 1
    THEN IF Rejected(o) THEN Throw(o.value)
         ELSE IF NoResponse(o) \/ o.resp.data = Null THEN Throw(TypeError)
         ELSE IF o.resp.error # Null
           THEN Return(createFailure(NewError(o.resp.error.message)))
         ELSE IF o.resp.data.user = Null
           THEN Return(createFailure(NewError("No authenticated user found")))
         ELSE Await(Call("auth.updateUser", this.supabase, [data |-> updates]))
    ELSE IF Rejected(o) THEN Throw(o.value)
         ELSE IF NoResponse(o) THEN Throw(TypeError)
         ELSE IF o.resp.error # Null
           THEN Return(createFailure(NewError(o.resp.error.message)))
         ELSE IF o.resp.data = Null THEN Throw(TypeError)
         ELSE IF o.resp.data.user = Null
           THEN Return(createFailure(NewError("Profile update failed")))
         ELSE Return(createSuccess(UserService_mapSupabaseUserToUser(o.resp.data.user)))

\* stage 1 resumes after getUser, stage 2 after updateUser
UserService_updateProfile_try(stage, this, updates, o) ==
  IF stage = 1
    THEN IF Rejected(o) THEN Throw(o.value)
         ELSE IF NoResponse(o) \/ o.resp.data = Null THEN Throw(TypeError)
         ELSE IF o.resp.error # Null
           THEN Return(createFailure(NewError(o.resp.error.message)))
         ELSE IF o.resp.data.user = Null
           THEN Return(createFailure(NewError("No authenticated user found")))
         ELSE Await(Call("auth.updateUser", this.supabase,
                         [data |-> Spread(o.resp.data.user.user_metadata, updates)]))
    ELSE IF Rejected(o) THEN Throw(o.value)
         ELSE IF NoResponse(o) THEN Throw(TypeError)
         ELSE IF o.resp.error # Null
           THEN Return(createFailure(NewError(o.resp.error.message)))
         ELSE IF o.resp.data = Null THEN Throw(TypeError)
         ELSE IF o.resp.data.user = Null
           THEN Return(createFailure(NewError("Profile update failed")))
         ELSE Return(createSuccess(UserService_mapSupabaseUserToUser(o.resp.data.user)))

UserService_updateProfile(stage, this, updates, o) ==
  Catch(UserService_updateProfile_try(stage, this, updates, o), "Profile update failed")

UserService_getCurrentUser_call(this, args) ==
  Call("auth.getUser", this.supabase, EmptyObject)

\* seeded fault: no current user reported as a failure
UserService_getCurrentUser_failsWhenSignedOut(o) ==
  IF Rejected(o) THEN Throw(o.value)
  ELSE IF NoResponse(o) \/ o.resp.data = Null THEN Throw(TypeError)
  ELSE IF o.resp.error # Null
    THEN Return(createFailure(NewError(o.resp.error.message)))
  ELSE IF o.resp.data.user = Null
    THEN Return(createFailure(NewError("No authenticated user found")))
  ELSE Return(createSuccess(UserService_mapSupabaseUserToUser(o.resp.data.user)))

\* seeded fault: getCurrentUser that fetches the user a second time before returning
UserService_getCurrentUser_refetches(o) ==
  IF Rejected(o) THEN Throw(o.value)
  ELSE IF NoResponse(o) \/ o.resp.data = Null THEN Throw(TypeError)
  ELSE IF o.resp.error # Null
    THEN Return(createFailure(NewError(o.resp.error.message)))
  ELSE IF o.resp.data.user = Null THEN Return(createSuccess(Null))
  ELSE Await(Call("auth.getUser", serviceManager.userService.supabase, EmptyObject))

UserService_getCurrentUser_try(o) ==
  IF Rejected(o) THEN Throw(o.value)
  ELSE IF NoResponse(o) \/ o.resp.data = Null THEN Throw(TypeError)
  ELSE IF o.resp.error # Null
    THEN Return(createFailure(NewError(o.resp.error.message)))
  ELSE IF o.resp.data.user = Null THEN Return(createSuccess(Null))
  ELSE Return(createSuccess(UserService_mapSupabaseUserToUser(o.resp.data.user)))

UserService_getCurrentUser(o) ==
  Catch(UserService_getCurrentUser_try(o), "Failed to get current user")

(***************************************************************************)
(* CrudService.  A query is the table, the operation and the eq(column,    *)
(* value) constraints chained onto it, in the order they were chained.     *)
(***************************************************************************)
Eq(column, value) == [column |-> column, value |-> value]

Array(elements) == [array |-> elements]

CrudService_create_call(this, args) ==
  Call("from.insert.select.single", this.supabase,
       [table |-> args.table, data |-> args.data])

CrudService_create_try(o) ==
  IF Rejected(o) THEN Throw(o.value)
  ELSE IF NoResponse(o) THEN Throw(TypeError)
  ELSE IF o.resp.error # Null
    THEN Return(createFailure(NewError(o.resp.error.message)))
  ELSE Return(createSuccess(o.resp.data))

CrudService_create(o) == Catch(CrudService_create_try(o), "Create operation failed")

CrudService_read_call(this, args) ==
  Call("from.select.eq.single", this.supabase,
       [table |-> args.table, eq |-> <<Eq("id", args.id)>>])

\* seeded fault: read that turns every backend error into success(null)
CrudService_read_anyErrorIsNull(o) ==
  IF Rejected(o) THEN Throw(o.value)
  ELSE IF NoResponse(o) THEN Throw(TypeError)
  ELSE IF o.resp.error # Null THEN Return(createSuccess(Null))
  ELSE Return(createSuccess(o.resp.data))

CrudService_read_try(o) ==
  IF Rejected(o) THEN Throw(o.value)
  ELSE IF NoResponse(o) THEN Throw(TypeError)
  ELSE IF o.resp.error # Null
    THEN IF o.resp.error.code = "PGRST116"
           THEN Return(createSuccess(Null))
           ELSE Return(createFailure(NewError(o.resp.error.message)))
  ELSE Return(createSuccess(o.resp.data))

CrudService_read(o) == Catch(CrudService_read_try(o), "Read operation failed")

CrudService_update_call(this, args) ==
  Call("from.update.eq.select.single", this.supabase,
       [table |-> args.table, data |-> args.data, eq |-> <<Eq("id", args.id)>>])

\* seeded fault: update that also turns the not-found code into success(null)
CrudService_update_notFoundIsNull(o) ==
  IF Rejected(o) THEN Throw(o.value)
  ELSE IF NoResponse(o) THEN Throw(TypeError)
  ELSE IF o.resp.error # Null
    THEN IF o.resp.error.code = "PGRST116"
           THEN Return(createSuccess(Null))
           ELSE Return(createFailure(NewError(o.resp.error.message)))
  ELSE Return(createSuccess(o.resp.data))

CrudService_update_try(o) ==
  IF Rejected(o) THEN Throw(o.value)
  ELSE IF NoResponse(o) THEN Throw(TypeError)
  ELSE IF o.resp.error # Null
    THEN Return(createFailure(NewError(o.resp.error.message)))
  ELSE Return(createSuccess(o.resp.data))

CrudService_update(o) == Catch(CrudService_update_try(o), "Update operation failed")

CrudService_delete_call(this, args) ==
  Call("from.delete.eq", this.supabase,
       [table |-> args.table, eq |-> <<Eq("id", args.id)>>])

CrudService_delete_try(o) ==
  IF Rejected(o) THEN Throw(o.value)
  ELSE IF NoResponse(o) THEN Throw(TypeError)
  ELSE IF o.resp.error # Null
    THEN Return(createFailure(NewError(o.resp.error.message)))
  ELSE Return(createSuccess(Void))

CrudService_delete(o) == Catch(CrudService_delete_try(o), "Delete operation failed")

\* seeded fault: each filter restarts the query, so only the last one applies
CrudService_list_lastFilterOnly(this, args) ==
  Call("from.select", this.supabase,
       [table |-> args.table,
        eq |-> IF args.filters = Void \/ args.filters.entries = <<>>
                 THEN <<>>
                 ELSE LET n == Len(args.filters.entries) IN
                      <<Eq(args.filters.entries[n][1], args.filters.entries[n][2])>>])

\* seeded fault: only the first filter is applied to the query
CrudService_list_firstFilterOnly(this, args) ==
  Call("from.select", this.supabase,
       [table |-> args.table,
        eq |-> IF args.filters = Void \/ args.filters.entries = <<>>
                 THEN <<>>
                 ELSE <<Eq(args.filters.entries[1][1], args.filters.entries[1][2])>>])

\* filters is undefined (Void) or an object, given as its entries in key order
CrudService_list_call(this, args) ==
  Call("from.select", this.supabase,
       [table |-> args.table,
        eq |-> IF args.filters = Void
                 THEN <<>>
                 ELSE [i \in DOMAIN args.filters.entries |->
                         Eq(args.filters.entries[i][1], args.filters.entries[i][2])]])

\* seeded fault: list that returns data without the || [] default
CrudService_list_passesNull(o) ==
  IF Rejected(o) THEN Throw(o.value)
  ELSE IF NoResponse(o) THEN Throw(TypeError)
  ELSE IF o.resp.error # Null
    THEN Return(createFailure(NewError(o.resp.error.message)))
  ELSE Return(createSuccess(o.resp.data))

CrudService_list_try(o) ==
  IF Rejected(o) THEN Throw(o.value)
  ELSE IF NoResponse(o) THEN Throw(TypeError)
  ELSE IF o.resp.error # Null
    THEN Return(createFailure(NewError(o.resp.error.message)))
  ELSE Return(createSuccess(IF o.resp.data = Null THEN Array(<<>>) ELSE o.resp.data))

CrudService_list(o) == Catch(CrudService_list_try(o), "List operation failed")

(***************************************************************************)
(* ServiceManager: every public method returns the matching service        *)
(* method's promise.                                                       *)
(***************************************************************************)
AuthMethods ==
  {"signUp", "signIn", "signOut", "getCurrentUser", "getCurrentSession",
   "resendVerificationEmail"}

UserMethods == {"updateProfile", "getCurrentUser"}

CrudMethods == {"create", "read", "update", "delete", "list"}

ServiceManagerMethods ==
  {"signUp", "signIn", "signOut", "resendVerificationEmail", "updateProfile",
   "getCurrentUser", "getCurrentSession", "create", "read", "update", "delete", "list"}

\* seeded fault: the facade's getCurrentUser goes to the authentication service
ServiceManager_delegate_userViaAuth(method) ==
  CASE method \in {"signUp", "signIn", "signOut", "resendVerificationEmail",
                   "getCurrentSession", "getCurrentUser"} -> "authService"
    [] method \in {"updateProfile"} -> "userService"
    [] OTHER -> "crudService"

\* the service a facade method delegates to
ServiceManager_delegate(method) ==
  CASE method \in {"signUp", "signIn", "signOut", "resendVerificationEmail",
                   "getCurrentSession"} -> "authService"
    [] method \in {"updateProfile", "getCurrentUser"} -> "userService"
    [] OTHER -> "crudService"

\* the service that runs a call made on target (the facade or a service)
ServiceOf(target, method) ==
  IF target = "serviceManager" THEN ServiceManager_delegate(method) ELSE target

\* the targets that expose a method
TargetsOf(method) ==
  {t \in {"serviceManager", "authService", "userService", "crudService"} :
     \/ t = "serviceManager" /\ method \in ServiceManagerMethods
     \/ t = "authService" /\ method \in AuthMethods
     \/ t = "userService" /\ method \in UserMethods
     \/ t = "crudService" /\ method \in CrudMethods}

\* the first backend call of a method
FirstCall(service, method, args) ==
  LET this == serviceManager[service] IN
  CASE service = "authService" /\ method = "signUp" -> AuthService_signUp_call(this, args)
    [] service = "authService" /\ method = "signIn" -> AuthService_signIn_call(this, args)
    [] service = "authService" /\ method = "signOut" -> AuthService_signOut_call(this, args)
    [] service = "authService" /\ method = "getCurrentUser" ->
         AuthService_getCurrentUser_call(this, args)
    [] service = "authService" /\ method = "getCurrentSession" ->
         AuthService_getCurrentSession_call(this, args)
    [] service = "authService" /\ method = "resendVerificationEmail" ->
         AuthService_resendVerificationEmail_call(this, args)
    [] service = "userService" /\ method = "updateProfile" ->
         UserService_updateProfile_call(this, args)
    [] service = "userService" /\ method = "getCurrentUser" ->
         UserService_getCurrentUser_call(this, args)
    [] service = "crudService" /\ method = "create" -> CrudService_create_call(this, args)
    [] service = "crudService" /\ method = "read" -> CrudService_read_call(this, args)
    [] service = "crudService" /\ method = "update" -> CrudService_update_call(this, args)
    [] service = "crudService" /\ method = "delete" -> CrudService_delete_call(this, args)
    [] service = "crudService" /\ method = "list" -> CrudService_list_call(this, args)

\* what a method does when the backend call it awaits (its stage-th) ends with o
Resume(service, method, args, stage, o) ==
  LET this == serviceManager[service] IN
  CASE service = "authService" /\ method = "signUp" -> AuthService_signUp(o)
    [] service = "authService" /\ method = "signIn" -> AuthService_signIn(o)
    [] service = "authService" /\ method = "signOut" -> AuthService_signOut(o)
    [] service = "authService" /\ method = "getCurrentUser" -> AuthService_getCurrentUser(o)
    [] service = "authService" /\ method = "getCurrentSession" ->
         AuthService_getCurrentSession(o)
    [] service = "authService" /\ method = "resendVerificationEmail" ->
         AuthService_resendVerificationEmail(stage, this, o)
    [] service = "userService" /\ method = "updateProfile" ->
         UserService_updateProfile(stage, this, args.updates, o)
    [] service = "userService" /\ method = "getCurrentUser" -> UserService_getCurrentUser(o)
    [] service = "crudService" /\ method = "create" -> CrudService_create(o)
    [] service = "crudService" /\ method = "read" -> CrudService_read(o)
    [] service = "crudService" /\ method = "update" -> CrudService_update(o)
    [] service = "crudService" /\ method = "delete" -> CrudService_delete(o)
    [] service = "crudService" /\ method = "list" -> CrudService_list(o)

(***************************************************************************)
(* Bounds and the values the callers and the backend draw from             *)
(***************************************************************************)
MaxRows == 2

RowIdPool == <<"r1", "r2", "r3", "r4">>

RowIds == {RowIdPool[i] : i \in 1..MaxRows}

Callers == {"c1"}

Tables == {"social_links"}

Emails == {"ann@example.com"}

Passwords == {"secret", "wrong"}

ProfileUpdates == {[firstName |-> "Ann"], [avatar |-> "a.png", lastName |-> ""]}

RowData == {[a |-> "x", b |-> "x"], [a |-> "x", b |-> "y"]}

RowUpdates == {[b |-> "y"]}

Filters ==
  {Void, [entries |-> <<>>], [entries |-> << <<"a", "x">> >>],
   [entries |-> << <<"a", "x">>, <<"b", "y">> >>]}

Timestamp == "2024-01-01T00:00:00Z"

(***************************************************************************)
(* The backend.  An outcome of a call is a response object, no response,   *)
(* or a thrown value.                                                      *)
(***************************************************************************)
Responds(resp) == [throws |-> FALSE, value |-> Null, resp |-> resp]

Throws(value) == [throws |-> TRUE, value |-> value, resp |-> Null]

Response(data, error) == [data |-> data, error |-> error]

BackendError(message, code) == [message |-> message, code |-> code]

NoUserData == [user |-> Null, session |-> Null]

RawSession(user) ==
  [user |-> user, access_token |-> "access", refresh_token |-> "refresh",
   expires_at |-> 1700000000]

NotFound ==
  BackendError("JSON object requested, multiple (or no) rows returned", "PGRST116")

\* the rows of a table that satisfy every chained eq constraint
Matches(table, eq) ==
  {r \in table : \A i \in DOMAIN eq : Get(r, eq[i].column) = eq[i].value}

\* a set of rows as the array the backend returns (in id order)
RowsInOrder(S) ==
  LET F[i \in 0..Len(RowIdPool)] ==
        IF i = 0 THEN <<>>
        ELSE IF \E r \in S : r.id = RowIdPool[i]
          THEN Append(F[i - 1], CHOOSE r \in S : r.id = RowIdPool[i])
          ELSE F[i - 1]
  IN F[Len(RowIdPool)]

\* .single(): exactly one row, else the not-found error
Single(S) ==
  IF Cardinality(S) = 1
    THEN Response(CHOOSE r \in S : TRUE, Null)
    ELSE Response(Null, NotFound)

Effect(resp, acct, sess, tbl) ==
  [out |-> Responds(resp), account |-> acct, session |-> sess, rows |-> tbl]

\* what the backend can answer to a call in the current state, with its effect.
\* Each client handle has a session of its own; getUser without a session may
\* answer with or without an error; updateUser merges the data it is sent into
\* the stored metadata; ids of inserted rows are assigned by the backend.
\* a client stores or clears its session: depending on the runtime the store is
\* the client's own (in memory) or one shared by every client of the project
\* (browser storage under the project's key)
StoreSession(h, present) ==
  {[session EXCEPT ![h] = present], [k \in Handles |-> present]}

Answers(call) ==
  LET h == call.handle
      arg == call.arg
      signedIn == session[h] /\ account # Null
  IN
  CASE call.op = "auth.signUp" ->
         IF account # Null
           THEN {Effect(Response(NoUserData, BackendError("User already registered", Undefined)),
                        account, session, rows)}
           ELSE {Effect(Response([user |-> u, session |-> Null], Null), u, session, rows) :
                   u \in {[id |-> "u1", email |-> arg.email, user_metadata |-> arg.data,
                           email_confirmed_at |-> c, created_at |-> Timestamp,
                           updated_at |-> Timestamp] : c \in {Undefined, Timestamp}}}
    [] call.op = "auth.signInWithPassword" ->
         IF account # Null /\ arg.email = account.email /\ arg.password = "secret"
           THEN {Effect(Response([user |-> account, session |-> RawSession(account)], Null),
                        account, s, rows) : s \in StoreSession(h, TRUE)}
           ELSE {Effect(Response(NoUserData, BackendError("Invalid login credentials", Undefined)),
                        account, session, rows)}
    [] call.op = "auth.signOut" ->
         {Effect(Response(Null, Null), account, s, rows) : s \in StoreSession(h, FALSE)}
    [] call.op = "auth.getUser" ->
         IF signedIn
           THEN {Effect(Response([user |-> account], Null), account, session, rows)}
           ELSE {Effect(Response([user |-> Null], Null), account, session, rows),
                 Effect(Response([user |-> Null], BackendError("Auth session missing!", Undefined)),
                        account, session, rows)}
    [] call.op = "auth.getSession" ->
         IF signedIn
           THEN {Effect(Response([session |-> RawSession(account)], Null),
                        account, session, rows)}
           ELSE {Effect(Response([session |-> Null], Null), account, session, rows)}
    [] call.op = "auth.resend" ->
         {Effect(Response(NoUserData, Null), account, session, rows)}
    [] call.op = "auth.updateUser" ->
         IF signedIn
           THEN {Effect(Response([user |-> u], Null), u, session, rows) :
                   u \in {[account EXCEPT
                             !.user_metadata = md,
                             !.email = IF "email" \in DOMAIN arg THEN arg.email ELSE @] :
                          md \in {Spread(account.user_metadata, arg.data), arg.data}}}
           ELSE {Effect(Response([user |-> Null], BackendError("Auth session missing!", Undefined)),
                        account, session, rows)}
    [] call.op = "from.insert.select.single" ->
         LET free == {i \in 1..MaxRows : \A r \in rows : r.id # RowIdPool[i]} IN
         IF "id" \in DOMAIN arg.data
           THEN \* the caller supplies the id: a table with a unique id refuses a
                \* second row with it, a table without one takes it
                (IF \E r \in rows : r.id = arg.data.id
                   THEN {Effect(Response(Null, BackendError(
                                  "duplicate key value violates unique constraint", "23505")),
                                account, session, rows)}
                   ELSE {})
                \cup {Effect(Response(arg.data, Null), account, session,
                              rows \cup {arg.data})}
         ELSE IF free = {}
           THEN {Effect(Response(Null, BackendError("row limit reached", "53400")),
                        account, session, rows)}
           ELSE LET i == CHOOSE i \in free : \A j \in free : i <= j
                    row == Spread([id |-> RowIdPool[i]], arg.data)
                IN {Effect(Response(row, Null), account, session, rows \cup {row})}
    [] call.op = "from.select.eq.single" ->
         {Effect(Single(Matches(rows, arg.eq)), account, session, rows)}
    [] call.op = "from.update.eq.select.single" ->
         LET hit == Matches(rows, arg.eq)
             new == {Spread(r, arg.data) : r \in hit}
         IN {Effect(Single(new), account, session,
                    IF Cardinality(hit) = 1 THEN (rows \ hit) \cup new ELSE rows)}
    [] call.op = "from.delete.eq" ->
         {Effect(Response(Null, Null), account, session, rows \ Matches(rows, arg.eq))}
    [] call.op = "from.select" ->
         {Effect(Response(Array(RowsInOrder(Matches(rows, arg.eq))), Null),
                 account, session, rows)}

AuthOps ==
  {"auth.signUp", "auth.signInWithPassword", "auth.signOut", "auth.getUser",
   "auth.getSession", "auth.resend", "auth.updateUser"}

\* the ways a call can fail or misbehave whatever the backend's state: a
\* structured error, no payload, no data object, no response, a thrown Error,
\* a thrown value that is no Error
Faults(call) ==
  LET errors ==
        IF call.op \in AuthOps
          THEN {Response(NoUserData, BackendError("Request rate limit reached", Undefined))}
          ELSE {Response(Null, BackendError("permission denied for table", "42501")),
                Response(Null, NotFound)}
      noPayload ==
        IF call.op \in AuthOps
          THEN {Response(NoUserData, Null)} \cup
               (IF call.op = "auth.signInWithPassword" /\ account # Null
                  THEN {Response([user |-> account, session |-> Null], Null)}
                  ELSE {})
          ELSE {}
  IN {Responds(r) : r \in errors \cup noPayload \cup {Response(Null, Null)}}
     \cup {Responds(Null),
           Throws([isError |-> TRUE, message |-> "fetch failed", origin |-> "backend"]),
           Throws([isError |-> FALSE, message |-> "aborted", origin |-> "backend"])}

(***************************************************************************)
(* State machine: a caller invokes a public method (the first backend call *)
(* is issued), the backend call ends (the method resumes and either issues *)
(* its next call or settles), the caller takes the settled promise.        *)
(***************************************************************************)
Idle == [pc |-> "idle"]

InitialAccount ==
  [id |-> "u1", email |-> "ann@example.com",
   user_metadata |-> [first_name |-> "Al", avatar_url |-> "al.png"],
   email_confirmed_at |-> Timestamp, created_at |-> Timestamp, updated_at |-> Timestamp]

Init ==
  /\ account \in {Null, InitialAccount}
  /\ session \in [Handles -> BOOLEAN]
  /\ account = Null => \A h \in Handles : ~session[h]
  /\ rows = {}
  /\ inv = [c \in Callers |-> Idle]

Invoke(c, target, method, args) ==
  /\ inv[c].pc = "idle"
  /\ target \in TargetsOf(method)
  /\ inv' = [inv EXCEPT ![c] =
               [pc |-> "await", target |-> target, method |-> method, args |-> args,
                calls |-> <<FirstCall(ServiceOf(target, method), method, args)>>,
                outs |-> <<>>, settled |-> Null]]
  /\ UNCHANGED <<account, session, rows>>

signUp(c, target, email, password, profile) ==
  Invoke(c, target, "signUp", [email |-> email, password |-> password, profile |-> profile])

signIn(c, target, email, password) ==
  Invoke(c, target, "signIn", [email |-> email, password |-> password])

signOut(c, target) == Invoke(c, target, "signOut", EmptyObject)

getCurrentUser(c, target) == Invoke(c, target, "getCurrentUser", EmptyObject)

getCurrentSession(c, target) == Invoke(c, target, "getCurrentSession", EmptyObject)

resendVerificationEmail(c, target) ==
  Invoke(c, target, "resendVerificationEmail", EmptyObject)

updateProfile(c, target, updates) ==
  Invoke(c, target, "updateProfile", [updates |-> updates])

create(c, target, table, data) ==
  Invoke(c, target, "create", [data |-> data, table |-> table])

read(c, target, table, id) == Invoke(c, target, "read", [id |-> id, table |-> table])

update(c, target, table, id, data) ==
  Invoke(c, target, "update", [data |-> data, id |-> id, table |-> table])

delete(c, target, table, id) == Invoke(c, target, "delete", [id |-> id, table |-> table])

list(c, target, table, filters) ==
  Invoke(c, target, "list", [filters |-> filters, table |-> table])

\* seeded fault: the method never resumes after its awaited backend call ends
Settle_neverResumes(c, o) == inv' = inv

\* the awaited backend call ended with outcome o: run the method on from there
Settle(c, o) ==
  LET i == inv[c]
      step == Resume(ServiceOf(i.target, i.method), i.method, i.args, Len(i.calls), o)
  IN inv' = [inv EXCEPT ![c] =
       IF step.type = "await"
         THEN [i EXCEPT !.calls = Append(@, step.call), !.outs = Append(@, o)]
         ELSE [i EXCEPT !.pc = "done", !.outs = Append(@, o),
                        !.settled = [status |-> IF step.type = "return"
                                                  THEN "resolved" ELSE "rejected",
                                     value |-> step.value]]]

BackendAnswers(c) ==
  /\ inv[c].pc = "await"
  /\ \E e \in Answers(inv[c].calls[Len(inv[c].calls)]) :
       /\ account' = e.account
       /\ session' = e.session
       /\ rows' = e.rows
       /\ Settle(c, e.out)

BackendFails(c) ==
  /\ inv[c].pc = "await"
  /\ \E o \in Faults(inv[c].calls[Len(inv[c].calls)]) : Settle(c, o)
  /\ UNCHANGED <<account, session, rows>>

\* the caller takes the settled promise
Collect(c) ==
  /\ inv[c].pc = "done"
  /\ inv' = [inv EXCEPT ![c] = Idle]
  /\ UNCHANGED <<account, session, rows>>

Targets == {"serviceManager", "authService", "userService", "crudService"}

Next ==
  \E c \in Callers :
    \/ \E t \in Targets, e \in Emails, p \in Passwords, pr \in ProfileUpdates \cup {Void} :
         signUp(c, t, e, p, pr)
    \/ \E t \in Targets, e \in Emails, p \in Passwords : signIn(c, t, e, p)
    \/ \E t \in Targets : signOut(c, t)
    \/ \E t \in Targets : getCurrentUser(c, t)
    \/ \E t \in Targets : getCurrentSession(c, t)
    \/ \E t \in Targets : resendVerificationEmail(c, t)
    \/ \E t \in Targets, u \in ProfileUpdates : updateProfile(c, t, u)
    \/ \E t \in Targets, tb \in Tables, d \in RowData : create(c, t, tb, d)
    \/ \E t \in Targets, tb \in Tables, id \in RowIds : read(c, t, tb, id)
    \/ \E t \in Targets, tb \in Tables, id \in RowIds, d \in RowUpdates :
         update(c, t, tb, id, d)
    \/ \E t \in Targets, tb \in Tables, id \in RowIds : delete(c, t, tb, id)
    \/ \E t \in Targets, tb \in Tables, f \in Filters : list(c, t, tb, f)
    \/ BackendAnswers(c)
    \/ BackendFails(c)
    \/ Collect(c)

Spec == Init /\ [][Next]_vars

\* every backend call a method awaits eventually returns or throws
BackendEventuallyEnds ==
  \A c \in Callers : WF_vars(BackendAnswers(c) \/ BackendFails(c))

\* one kind of row is enough where only the ending of calls is at stake
LiveRowData == {[a |-> "x", b |-> "y"]}

\* every facade method, and the one service method the facade does not use
NextLive ==
  \E c \in Callers :
    \/ \E e \in Emails, p \in Passwords, pr \in ProfileUpdates \cup {Void} :
         signUp(c, "serviceManager", e, p, pr)
    \/ \E e \in Emails, p \in Passwords : signIn(c, "serviceManager", e, p)
    \/ signOut(c, "serviceManager")
    \/ \E t \in {"serviceManager", "authService"} : getCurrentUser(c, t)
    \/ getCurrentSession(c, "serviceManager")
    \/ resendVerificationEmail(c, "serviceManager")
    \/ \E u \in ProfileUpdates : updateProfile(c, "serviceManager", u)
    \/ \E tb \in Tables, d \in LiveRowData : create(c, "serviceManager", tb, d)
    \/ \E tb \in Tables, id \in RowIds : read(c, "serviceManager", tb, id)
    \/ \E tb \in Tables, id \in RowIds, d \in RowUpdates :
         update(c, "serviceManager", tb, id, d)
    \/ \E tb \in Tables, id \in RowIds : delete(c, "serviceManager", tb, id)
    \/ \E tb \in Tables, f \in Filters : list(c, "serviceManager", tb, f)
    \/ BackendAnswers(c)
    \/ BackendFails(c)
    \/ Collect(c)

SpecLive == Init /\ [][NextLive]_vars /\ BackendEventuallyEnds

\* ---- facade signIn followed by a facade call for the current user ----

\* the caller of a facade signIn that succeeded asks the facade for the current user
thenGetCurrentUser(c) ==
  /\ inv[c].pc = "done"
  /\ inv[c].target = "serviceManager" /\ inv[c].method = "signIn"
  /\ inv[c].settled.status = "resolved"
  /\ isSuccess(inv[c].settled.value)
  /\ inv' = [inv EXCEPT ![c] =
               [pc |-> "await", target |-> "serviceManager", method |-> "getCurrentUser",
                args |-> EmptyObject,
                calls |-> <<FirstCall(ServiceOf("serviceManager", "getCurrentUser"),
                                      "getCurrentUser", EmptyObject)>>,
                outs |-> <<>>, settled |-> Null,
                signedIn |-> inv[c].settled.value.data.user]]
  /\ UNCHANGED <<account, session, rows>>

\* the caller of a facade signIn that succeeded updates the profile through the facade
thenUpdateProfile(c, updates) ==
  /\ inv[c].pc = "done"
  /\ inv[c].target = "serviceManager" /\ inv[c].method = "signIn"
  /\ inv[c].settled.status = "resolved"
  /\ isSuccess(inv[c].settled.value)
  /\ LET args == [updates |-> updates] IN
     inv' = [inv EXCEPT ![c] =
               [pc |-> "await", target |-> "serviceManager", method |-> "updateProfile",
                args |-> args,
                calls |-> <<FirstCall(ServiceOf("serviceManager", "updateProfile"),
                                      "updateProfile", args)>>,
                outs |-> <<>>, settled |-> Null,
                signedIn |-> inv[c].settled.value.data.user]]
  /\ UNCHANGED <<account, session, rows>>

NextSession ==
  \E c \in Callers :
    \/ \E t \in Targets, e \in Emails, p \in Passwords : signIn(c, t, e, p)
    \/ \E t \in Targets : signOut(c, t)
    \/ thenGetCurrentUser(c)
    \/ \E u \in ProfileUpdates : thenUpdateProfile(c, u)
    \/ BackendAnswers(c)
    \/ Collect(c)

SpecSession == Init /\ [][NextSession]_vars

\* ---- record calls on a table with or without a unique id, backend answering ----

\* the caller of a create that succeeded reads the returned row back by its id;
\* the create's data and returned row stay on record beside the read
readCreated(c) ==
  /\ inv[c].pc = "done"
  /\ inv[c].method = "create"
  /\ inv[c].settled.status = "resolved"
  /\ isSuccess(inv[c].settled.value)
  /\ LET i == inv[c]
         args == [id |-> i.settled.value.data.id, table |-> i.args.table]
     IN inv' = [inv EXCEPT ![c] =
                  [pc |-> "await", target |-> i.target, method |-> "read", args |-> args,
                   calls |-> <<FirstCall(ServiceOf(i.target, "read"), "read", args)>>,
                   outs |-> <<>>, settled |-> Null,
                   created |-> [data |-> i.args.data, row |-> i.settled.value.data]]]
  /\ UNCHANGED <<account, session, rows>>

\* rows for which the caller supplies the id itself
KeyedRowData == {[id |-> "r1", a |-> "x", b |-> "x"], [id |-> "r1", a |-> "x", b |-> "y"]}

NextRoundTrip ==
  \E c \in Callers :
    \/ \E t \in Targets, tb \in Tables, d \in RowData \cup KeyedRowData :
         create(c, t, tb, d)
    \/ \E t \in Targets, tb \in Tables, id \in RowIds : read(c, t, tb, id)
    \/ \E t \in Targets, tb \in Tables, id \in RowIds, d \in RowUpdates :
         update(c, t, tb, id, d)
    \/ \E t \in Targets, tb \in Tables, id \in RowIds : delete(c, t, tb, id)
    \/ readCreated(c)
    \/ BackendAnswers(c)
    \/ Collect(c)

SpecRoundTrip == Init /\ [][NextRoundTrip]_vars

(***************************************************************************)
(* Properties                                                              *)
(***************************************************************************)
Settled(c) == inv[c].pc = "done"

Resolved(c) == Settled(c) /\ inv[c].settled.status = "resolved"

Result(c) == inv[c].settled.value

Out(c, k) == inv[c].outs[k]

LastOut(c) == inv[c].outs[Len(inv[c].outs)]

Succeeds(c) == Resolved(c) /\ "success" \in DOMAIN Result(c) /\ Result(c).success

SucceedsWith(c, data) == Succeeds(c) /\ Result(c).data = data

Fails(c) == Resolved(c) /\ "success" \in DOMAIN Result(c) /\ ~Result(c).success

FailsWith(c, message) ==
  Fails(c) /\ "message" \in DOMAIN Result(c).error /\ Result(c).error.message = message

\* the backend returned a response carrying a structured error
StructuredError(o) == ~o.throws /\ o.resp # Null /\ o.resp.error # Null

\* the backend returned a response with a data object and no error
AnsweredWithData(o) ==
  ~o.throws /\ o.resp # Null /\ o.resp.error = Null /\ o.resp.data # Null

\* the backend returned a response with no error and no data object at all
NoDataObject(o) == ~o.throws /\ (o.resp = Null \/ (o.resp.error = Null /\ o.resp.data = Null))

\* C1: every public call, on the facade or on a service, whatever its backend
\* call does (payload, structured error, malformed or empty response, thrown
\* Error, thrown non-Error), settles by resolving to a Result; it never rejects.
C1_AlwaysResolvesToResult ==
  \A c \in Callers :
    Settled(c) =>
      /\ inv[c].settled.status = "resolved"
      /\ "success" \in DOMAIN Result(c)
      /\ Result(c).success \in BOOLEAN

\* a profile update whose write threw a value that is no Error still resolved
C1_Witness ==
  \E c \in Callers :
    /\ Resolved(c)
    /\ inv[c].method = "updateProfile"
    /\ Len(inv[c].outs) = 2
    /\ LastOut(c).throws /\ ~LastOut(c).value.isError

\* C2: every returned value is exactly one Result variant: success = true with
\* data and no error, or success = false with an error exposing a message and
\* no data; isSuccess and isFailure are never both true nor both false on it.
C2_ExactlyOneVariant ==
  \A c \in Callers :
    Resolved(c) =>
      /\ \/ /\ Result(c).success = TRUE
            /\ DOMAIN Result(c) = {"success", "data"}
         \/ /\ Result(c).success = FALSE
            /\ DOMAIN Result(c) = {"success", "error"}
            /\ "message" \in DOMAIN Result(c).error
      /\ isSuccess(Result(c)) # isFailure(Result(c))

\* a failure and a success with a null payload have both been returned
C2_Witness ==
  \E c \in Callers :
    /\ Resolved(c)
    /\ isFailure(Result(c)) /\ ~isSuccess(Result(c))
    /\ inv[c].method = "signIn"
    /\ StructuredError(LastOut(c))

\* C3: whenever a backend call made by a method returns a structured error with
\* message m (the current-user lookups inside updateProfile and
\* resendVerificationEmail included), the method returns a failure whose
\* error.message is m; only read turns the not-found code into success(null).
C3_BackendMessagePassedThrough ==
  \A c \in Callers :
    Settled(c) =>
      \A k \in 1..Len(inv[c].outs) :
        StructuredError(Out(c, k)) =>
          IF inv[c].method = "read" /\ Out(c, k).resp.error.code = "PGRST116"
            THEN SucceedsWith(c, Null)
            ELSE FailsWith(c, Out(c, k).resp.error.message)

\* the fallback message each method is expected to use
FallbackMessage(service, method) ==
  CASE method = "signUp" -> "Sign up failed"
    [] method = "signIn" -> "Sign in failed"
    [] method = "signOut" -> "Sign out failed"
    [] method = "getCurrentUser" -> "Failed to get current user"
    [] method = "getCurrentSession" -> "Failed to get current session"
    [] method = "resendVerificationEmail" -> "Failed to resend verification email"
    [] method = "updateProfile" -> "Profile update failed"
    [] method = "create" -> "Create operation failed"
    [] method = "read" -> "Read operation failed"
    [] method = "update" -> "Update operation failed"
    [] method = "delete" -> "Delete operation failed"
    [] method = "list" -> "List operation failed"

\* C4: when a backend call throws v, the method returns a failure whose error is
\* v itself if v is an Error, and otherwise a new Error carrying the method's
\* fixed fallback message.
C4_ThrownValueBecomesFailure ==
  \A c \in Callers :
    (Settled(c) /\ LastOut(c).throws) =>
      /\ Fails(c)
      /\ Result(c).error =
           IF LastOut(c).value.isError
             THEN LastOut(c).value
             ELSE NewError(FallbackMessage(ServiceOf(inv[c].target, inv[c].method),
                                           inv[c].method))

\* a read whose backend call threw an Error returned that very Error
C4_Witness ==
  \E c \in Callers :
    /\ Settled(c) /\ inv[c].method = "read"
    /\ LastOut(c).throws /\ LastOut(c).value.isError
    /\ Fails(c) /\ Result(c).error.origin = "backend"

\* C5: read returns success with null when the backend reports the not-found
\* code PGRST116, a failure for every other backend error code, and success
\* with the selected row when there is no error.
C5_ReadNotFoundIsNull ==
  \A c \in Callers :
    (Settled(c) /\ inv[c].method = "read" /\ ~LastOut(c).throws /\ LastOut(c).resp # Null) =>
      LET resp == LastOut(c).resp IN
      IF resp.error = Null THEN SucceedsWith(c, resp.data)
      ELSE IF resp.error.code = "PGRST116" THEN SucceedsWith(c, Null)
      ELSE Fails(c)

\* a read of an id no row has came back as success with null
C5_Witness ==
  \E c \in Callers :
    /\ Settled(c) /\ inv[c].method = "read"
    /\ StructuredError(LastOut(c)) /\ LastOut(c).resp.error.code = "PGRST116"
    /\ SucceedsWith(c, Null)
    /\ \A r \in rows : r.id # inv[c].args.id

\* C6: getCurrentUser (both services and the facade) and getCurrentSession
\* return success with null when the backend reports no error and no current
\* user / session; they fail only when the backend call reports an error or
\* throws (a response without a data object makes the destructuring of the
\* awaited call throw): nobody signed in is never reported as a failure.
C6_SignedOutIsSuccessNull ==
  \A c \in Callers :
    (Settled(c) /\ inv[c].method \in {"getCurrentUser", "getCurrentSession"}) =>
      LET o == LastOut(c) IN
      /\ (AnsweredWithData(o) /\
            (IF inv[c].method = "getCurrentUser"
               THEN o.resp.data.user = Null ELSE o.resp.data.session = Null))
           => SucceedsWith(c, Null)
      /\ Fails(c) => (o.throws \/ StructuredError(o) \/ NoDataObject(o))

\* the facade's getCurrentUser, with nobody signed in, returned success(null)
C6_Witness ==
  \E c \in Callers :
    /\ Settled(c) /\ inv[c].method = "getCurrentUser" /\ inv[c].target = "serviceManager"
    /\ AnsweredWithData(LastOut(c)) /\ LastOut(c).resp.data.user = Null
    /\ \A h \in Handles : ~session[h]
    /\ SucceedsWith(c, Null)

\* C7: updateProfile with no current account fails with "No authenticated user
\* found" and issues no updateUser call; when the current-account fetch returns
\* an error no updateUser call is issued either; in both cases no step of the
\* call changes the stored account.
NoAccountOrFetchError(o) ==
  \/ StructuredError(o)
  \/ AnsweredWithData(o) /\ o.resp.data.user = Null

C7_NoWriteWithoutAccount ==
  /\ [](\A c \in Callers :
         (inv[c].pc # "idle" /\ inv[c].method = "updateProfile" /\ Len(inv[c].outs) >= 1
            /\ NoAccountOrFetchError(Out(c, 1))) =>
           /\ Settled(c)
           /\ Fails(c)
           /\ \A k \in 1..Len(inv[c].calls) : inv[c].calls[k].op # "auth.updateUser"
           /\ ~StructuredError(Out(c, 1)) => FailsWith(c, "No authenticated user found"))
  /\ [][\A c \in Callers :
          (inv'[c] # inv[c] /\ inv'[c].pc # "idle" /\ inv'[c].method = "updateProfile"
             /\ Len(inv'[c].outs) <= 1
             /\ (Len(inv'[c].outs) = 1 => NoAccountOrFetchError(inv'[c].outs[1])))
            => account' = account]_vars

\* an updateProfile on a handle with no session failed before any write, the
\* stored metadata being what it was
C7_Witness ==
  \E c \in Callers :
    /\ Settled(c) /\ inv[c].method = "updateProfile"
    /\ AnsweredWithData(Out(c, 1)) /\ Out(c, 1).resp.data.user = Null
    /\ FailsWith(c, "No authenticated user found")
    /\ Len(inv[c].calls) = 1
    /\ account = InitialAccount

\* C8: resendVerificationEmail fails with "No authenticated user found" when
\* there is no current user and then never issues the resend call; when there
\* is a current user it issues exactly one resend call, of type signup,
\* addressed to that user's email.
ResendCalls(c) == {k \in 1..Len(inv[c].calls) : inv[c].calls[k].op = "auth.resend"}

C8_ResendOnlyForCurrentUser ==
  \A c \in Callers :
    (inv[c].pc # "idle" /\ inv[c].method = "resendVerificationEmail"
       /\ Len(inv[c].outs) >= 1 /\ ~Out(c, 1).throws /\ ~NoDataObject(Out(c, 1))
       /\ Out(c, 1).resp.data # Null) =>
      LET user == Out(c, 1).resp.data.user IN
      IF user = Null
        THEN /\ Settled(c)
             /\ FailsWith(c, "No authenticated user found")
             /\ ResendCalls(c) = {}
        ELSE /\ ResendCalls(c) = {2}
             /\ inv[c].calls[2].arg = [type |-> "signup", email |-> user.email]
             /\ inv[c].calls[2].handle = serviceManager.authService.supabase

\* a resend for the signed-in user went out and the call succeeded
C8_Witness ==
  \E c \in Callers :
    /\ Settled(c) /\ inv[c].method = "resendVerificationEmail"
    /\ Succeeds(c)
    /\ ResendCalls(c) = {2}
    /\ inv[c].calls[2].arg.email = "ann@example.com"

\* C9: a successful signUp has needsVerification = true exactly when the
\* account the backend returned carries no confirmation timestamp, and false
\* exactly when it carries one.
C9_NeedsVerificationIffUnconfirmed ==
  \A c \in Callers :
    (Settled(c) /\ inv[c].method = "signUp") =>
      /\ Succeeds(c) =>
           /\ AnsweredWithData(Out(c, 1)) /\ Out(c, 1).resp.data.user # Null
           /\ Result(c).data.needsVerification =
                (Out(c, 1).resp.data.user.email_confirmed_at = Undefined)
      /\ (AnsweredWithData(Out(c, 1)) /\ Out(c, 1).resp.data.user # Null) => Succeeds(c)

\* a signUp whose account came back already confirmed needs no verification
C9_Witness ==
  \E c \in Callers :
    /\ Settled(c) /\ inv[c].method = "signUp" /\ Succeeds(c)
    /\ Out(c, 1).resp.data.user.email_confirmed_at = Timestamp
    /\ Result(c).data.needsVerification = FALSE

\* C10: when the backend reports no error but omits the expected payload the
\* method fails with a locally made message and never succeeds: signUp without
\* a user gives "User creation failed", signIn without a user or without a
\* session gives "Sign in failed", updateProfile whose write returns no user
\* gives "Profile update failed".
C10_MissingPayloadIsFailure ==
  \A c \in Callers :
    Settled(c) =>
      LET o == LastOut(c) IN
      /\ (inv[c].method = "signUp" /\ AnsweredWithData(o) /\ o.resp.data.user = Null)
           => FailsWith(c, "User creation failed")
      /\ (inv[c].method = "signIn" /\ AnsweredWithData(o)
            /\ (o.resp.data.user = Null \/ o.resp.data.session = Null))
           => FailsWith(c, "Sign in failed")
      /\ (inv[c].method = "updateProfile" /\ Len(inv[c].outs) = 2
            /\ AnsweredWithData(o) /\ o.resp.data.user = Null)
           => FailsWith(c, "Profile update failed")
      /\ (inv[c].method \in {"signUp", "signIn"} /\ NoDataObject(o)) => Fails(c)
      /\ (inv[c].method = "updateProfile" /\ Len(inv[c].outs) = 2 /\ NoDataObject(o))
           => Fails(c)

\* a signIn answered with a user but no session failed with "Sign in failed"
C10_Witness ==
  \E c \in Callers :
    /\ Settled(c) /\ inv[c].method = "signIn"
    /\ AnsweredWithData(LastOut(c))
    /\ LastOut(c).resp.data.user # Null /\ LastOut(c).resp.data.session = Null
    /\ FailsWith(c, "Sign in failed")

\* C11: list with zero matching rows, or with a response carrying no error and
\* a null row set, returns success with an empty sequence; the data of a
\* successful list is always a sequence, never null.
C11_ListDataIsAlwaysSequence ==
  \A c \in Callers :
    (Settled(c) /\ inv[c].method = "list") =>
      LET o == LastOut(c) IN
      /\ Succeeds(c) => (Result(c).data # Null /\ DOMAIN Result(c).data = {"array"})
      /\ (~o.throws /\ o.resp # Null /\ o.resp.error = Null
            /\ (o.resp.data = Null \/ o.resp.data = Array(<<>>)))
           => SucceedsWith(c, Array(<<>>))

\* a list answered with no error and a null row set returned an empty sequence
C11_Witness ==
  \E c \in Callers :
    /\ Settled(c) /\ inv[c].method = "list"
    /\ ~LastOut(c).throws /\ LastOut(c).resp # Null
    /\ LastOut(c).resp.error = Null /\ LastOut(c).resp.data = Null
    /\ SucceedsWith(c, Array(<<>>))

\* C12: list(table, filters) returns exactly the rows of the table for which
\* every key of filters equals the given value: a row matching only some of
\* the filters is excluded and no row matching all of them is omitted.
FilterEntries(filters) == IF filters = Void THEN <<>> ELSE filters.entries

MatchesAll(r, filters) ==
  \A i \in DOMAIN FilterEntries(filters) :
    Get(r, FilterEntries(filters)[i][1]) = FilterEntries(filters)[i][2]

MatchesSome(r, filters) ==
  \E i \in DOMAIN FilterEntries(filters) :
    Get(r, FilterEntries(filters)[i][1]) = FilterEntries(filters)[i][2]

Listed(c) == {Result(c).data.array[k] : k \in DOMAIN Result(c).data.array}

C12_ListIsConjunctionOfFilters ==
  \A c \in Callers :
    (Settled(c) /\ inv[c].method = "list" /\ AnsweredWithData(LastOut(c))) =>
      /\ Succeeds(c)
      /\ Listed(c) = {r \in rows : MatchesAll(r, inv[c].args.filters)}
      /\ Len(Result(c).data.array) = Cardinality(Listed(c))

\* a list with two filters left out a stored row that matches only one of them
\* and returned the row that matches both
C12_Witness ==
  \E c \in Callers :
    /\ Settled(c) /\ inv[c].method = "list" /\ AnsweredWithData(LastOut(c))
    /\ Len(FilterEntries(inv[c].args.filters)) = 2
    /\ \E r \in rows :
         /\ MatchesSome(r, inv[c].args.filters) /\ ~MatchesAll(r, inv[c].args.filters)
         /\ r \notin Listed(c)
    /\ Listed(c) # {}

\* C13: when create(table, data) succeeds and returns a row with id i, a
\* following read(table, i) with no update or delete in between returns success
\* with a record holding every key of data with the same value.
C13_CreateThenReadRoundTrip ==
  \A c \in Callers :
    (Settled(c) /\ inv[c].method = "read" /\ "created" \in DOMAIN inv[c]) =>
      /\ Succeeds(c)
      /\ Result(c).data # Null
      /\ Result(c).data.id = inv[c].created.row.id
      /\ \A k \in DOMAIN inv[c].created.data :
           Get(Result(c).data, k) = inv[c].created.data[k]

\* ---- user mapping over raw accounts with any mix of metadata keys ----

CamelKeys == {"firstName", "lastName", "avatar"}

SnakeKey(k) ==
  CASE k = "firstName" -> "first_name"
    [] k = "lastName" -> "last_name"
    [] k = "avatar" -> "avatar_url"

MetadataKeys == CamelKeys \cup {SnakeKey(k) : k \in CamelKeys}

MetadataValues == {"", "Ann", "Al"}

\* every metadata object over a subset of the six keys
RawMetadata == UNION {[S -> MetadataValues] : S \in SUBSET MetadataKeys}

RawAccounts == {[InitialAccount EXCEPT !.user_metadata = md] : md \in RawMetadata}

InitMapping ==
  /\ account \in RawAccounts
  /\ session = [h \in Handles |-> TRUE]
  /\ rows = {}
  /\ inv = [c \in Callers |-> Idle]

NextMapping ==
  \E c \in Callers :
    \/ \E t \in Targets : getCurrentUser(c, t)
    \/ BackendAnswers(c)
    \/ Collect(c)

SpecMapping == InitMapping /\ [][NextMapping]_vars

\* a getCurrentUser call settled with the mapped user of the current account
Mapped(c) ==
  /\ Settled(c) /\ inv[c].method = "getCurrentUser"
  /\ Succeeds(c) /\ Result(c).data # Null

\* C14: for a raw account whose metadata has no camel-case key, the mapped
\* firstName, lastName and avatar equal the values of first_name, last_name and
\* avatar_url; with avatar_url set and no avatar key, avatar is the avatar_url.
C14_SnakeCaseFallback ==
  \A c \in Callers :
    Mapped(c) =>
      \A k \in CamelKeys :
        k \notin DOMAIN account.user_metadata =>
          Result(c).data[k] = Get(account.user_metadata, SnakeKey(k))

\* an account with no camel-case key and avatar_url set was mapped to a user
\* whose avatar is the avatar_url value
C14_Witness ==
  \E c \in Callers :
    /\ Mapped(c)
    /\ DOMAIN account.user_metadata \cap CamelKeys = {}
    /\ "avatar_url" \in DOMAIN account.user_metadata
    /\ account.user_metadata.avatar_url = "Al"
    /\ Result(c).data.avatar = "Al"

\* C15: for every raw account whose metadata holds both the camel-case and the
\* snake-case key of a field, whatever their values, the mapped field equals
\* the camel-case key's value.
C15_CamelCasePreferred ==
  \A c \in Callers :
    Mapped(c) =>
      \A k \in CamelKeys :
        ({k, SnakeKey(k)} \subseteq DOMAIN account.user_metadata) =>
          Result(c).data[k] = account.user_metadata[k]

\* ---- updateProfile with every updates object a caller can pass at run time ----

\* the typed updates and, from a JavaScript caller, an object with another key
RuntimeUpdates ==
  ProfileUpdates \cup {[firstName |-> "Bea", lastName |-> "Lee"], [role |-> "admin"]}

NextProfile ==
  \E c \in Callers :
    \/ \E t \in Targets, u \in RuntimeUpdates : updateProfile(c, t, u)
    \/ BackendAnswers(c)
    \/ BackendFails(c)
    \/ Collect(c)

SpecProfile == Init /\ [][NextProfile]_vars

\* the updateProfile call of c has issued its metadata write
Wrote(c) ==
  /\ inv[c].pc # "idle" /\ inv[c].method = "updateProfile"
  /\ Len(inv[c].calls) = 2

\* the metadata the call read, and the metadata it sent to be written
ReadMetadata(c) == Out(c, 1).resp.data.user.user_metadata

WrittenMetadata(c) == inv[c].calls[2].arg.data

\* C16: updateProfile(updates) never writes to the account's metadata a key
\* outside firstName, lastName, avatar that comes from updates: any other key of
\* updates is rejected or ignored, whatever object the caller passes at run time.
C16_OnlyProfileKeysWritten ==
  \A c \in Callers :
    Wrote(c) =>
      \A k \in DOMAIN inv[c].args.updates \ CamelKeys :
        \/ k \notin DOMAIN WrittenMetadata(c)
        \/ /\ k \in DOMAIN ReadMetadata(c)
           /\ WrittenMetadata(c)[k] = ReadMetadata(c)[k]

\* C17: with an account current and no other writer, updateProfile(updates)
\* writes the existing metadata overridden by updates: every key of updates has
\* the update's value, every other existing key keeps its value, none is dropped.
C17_WritesExistingOverriddenByUpdates ==
  \A c \in Callers :
    Wrote(c) =>
      /\ DOMAIN WrittenMetadata(c) = DOMAIN ReadMetadata(c) \cup DOMAIN inv[c].args.updates
      /\ \A k \in DOMAIN inv[c].args.updates :
           WrittenMetadata(c)[k] = inv[c].args.updates[k]
      /\ \A k \in DOMAIN ReadMetadata(c) \ DOMAIN inv[c].args.updates :
           WrittenMetadata(c)[k] = ReadMetadata(c)[k]
      /\ (Settled(c) /\ Succeeds(c)) => account.user_metadata = WrittenMetadata(c)

\* an update succeeded that replaced the value of a key already stored and left
\* another stored key as it was
C17_Witness ==
  \E c \in Callers :
    /\ Wrote(c) /\ Settled(c) /\ Succeeds(c)
    /\ \E k \in DOMAIN inv[c].args.updates \cap DOMAIN ReadMetadata(c) :
         /\ ReadMetadata(c)[k] # inv[c].args.updates[k]
         /\ account.user_metadata[k] = inv[c].args.updates[k]
    /\ \E k \in DOMAIN ReadMetadata(c) \ DOMAIN inv[c].args.updates :
         account.user_metadata[k] = ReadMetadata(c)[k]

\* C18: no sequence of calls changes an account's id or email: the only
\* account write issued after creation is updateProfile's metadata write, which
\* carries metadata only, so every step leaves id, email and the other
\* non-metadata fields of an existing account as they were.
C18_IdAndEmailNeverChange ==
  /\ [](\A c \in Callers :
          inv[c].pc # "idle" =>
            \A k \in DOMAIN inv[c].calls :
              inv[c].calls[k].op = "auth.updateUser" =>
                /\ inv[c].method = "updateProfile"
                /\ DOMAIN inv[c].calls[k].arg = {"data"})
  /\ [][account # Null =>
          /\ account' # Null
          /\ account'.id = account.id
          /\ account'.email = account.email
          /\ account'.email_confirmed_at = account.email_confirmed_at
          /\ account'.created_at = account.created_at]_vars

\* a successful updateProfile changed the stored metadata of an account whose
\* id and email are those the call had read
C18_Witness ==
  \E c \in Callers :
    /\ Wrote(c) /\ Settled(c) /\ Succeeds(c)
    /\ account.user_metadata # ReadMetadata(c)
    /\ account.id = Out(c, 1).resp.data.user.id
    /\ account.email = Out(c, 1).resp.data.user.email

\* the collaborator each facade method is stated to go through
Collaborator(method) ==
  CASE method \in {"signUp", "signIn", "signOut", "resendVerificationEmail",
                   "getCurrentSession"} -> "authService"
    [] method \in {"updateProfile", "getCurrentUser"} -> "userService"
    [] method \in {"create", "read", "update", "delete", "list"} -> "crudService"

\* C19: for every facade method, argument list and backend state, the facade's
\* result equals that of the matching collaborator method called with the same
\* arguments, and the facade issues no backend call of its own: its calls are
\* exactly the collaborator's, on the collaborator's client.
C19_FacadeOnlyDelegates ==
  \A c \in Callers :
    (inv[c].pc # "idle" /\ inv[c].target = "serviceManager") =>
      LET i == inv[c]
          service == Collaborator(i.method)
      IN /\ i.calls[1] = FirstCall(service, i.method, i.args)
         /\ Len(i.calls) <= Len(i.outs) + 1
         /\ \A k \in DOMAIN i.outs :
              LET step == Resume(service, i.method, i.args, k, i.outs[k]) IN
              IF step.type = "await"
                THEN k < Len(i.calls) /\ i.calls[k + 1] = step.call
                ELSE /\ k = Len(i.calls)
                     /\ Settled(c)
                     /\ i.settled.status = "resolved"
                     /\ step.type = "return"
                     /\ Result(c) = step.value

\* getCurrentUser on the facade returned the user after the one call the
\* profile collaborator makes, on the collaborator's client
C19_Witness ==
  \E c \in Callers :
    /\ Settled(c) /\ inv[c].target = "serviceManager" /\ Succeeds(c)
    /\ inv[c].method = "getCurrentUser"
    /\ Result(c).data # Null
    /\ inv[c].calls = <<Call("auth.getUser", serviceManager.userService.supabase, EmptyObject)>>

\* ---- two callers of updateProfile on one account, backend answering ----

RaceCallers == {"c1", "c2"}

RaceUpdates == {[firstName |-> "Ann"], [lastName |-> "Lee"]}

RaceMetadata == {InitialAccount.user_metadata, [firstName |-> "Al", lastName |-> "Old"]}

InitRace ==
  /\ account \in {[InitialAccount EXCEPT !.user_metadata = md] : md \in RaceMetadata}
  /\ session = [h \in Handles |-> TRUE]
  /\ rows = {}
  /\ inv = [c \in RaceCallers |-> Idle]

NextRace ==
  \E c \in RaceCallers :
    \/ \E t \in Targets, u \in RaceUpdates : updateProfile(c, t, u)
    \/ BackendAnswers(c)
    \/ Collect(c)

SpecRace == InitRace /\ [][NextRace]_vars

\* C20: updateProfile is a non-atomic read-merge-write: when another writer
\* changes the metadata between this call's read and its write, the write goes
\* ahead unchecked and stores, for every key the call read or updates, the
\* call's own stale value over that change, and the call returns success.
C20_StaleWriteOverwritesSilently ==
  [][\A c \in RaceCallers :
       (Wrote(c) /\ inv[c].pc = "await" /\ inv'[c].pc = "done"
          /\ account.user_metadata # ReadMetadata(c)) =>
         /\ inv'[c].settled.status = "resolved"
         /\ isSuccess(inv'[c].settled.value)
         /\ \A k \in DOMAIN inv[c].args.updates :
              Get(account'.user_metadata, k) = inv[c].args.updates[k]
         /\ \A k \in DOMAIN ReadMetadata(c) \ DOMAIN inv[c].args.updates :
              Get(account'.user_metadata, k) = ReadMetadata(c)[k]]_vars

\* lost update: two overlapping calls with disjoint keys both returned success
\* and the stored metadata does not hold the value one of them set
C20_Witness ==
  \E c, d \in RaceCallers :
    /\ c # d
    /\ Wrote(c) /\ Settled(c) /\ Succeeds(c)
    /\ Wrote(d) /\ Settled(d) /\ Succeeds(d)
    /\ DOMAIN inv[c].args.updates \cap DOMAIN inv[d].args.updates = {}
    /\ ReadMetadata(c) = ReadMetadata(d)
    /\ \E k \in DOMAIN inv[d].args.updates :
         Get(account.user_metadata, k) # inv[d].args.updates[k]

\* C21: each public call performs at most two sequential backend calls, and
\* updateProfile is the only method that performs two: every other method,
\* resendVerificationEmail included, performs at most one.
C21_OnlyUpdateProfileMakesTwoCalls ==
  \A c \in Callers :
    inv[c].pc # "idle" =>
      /\ Len(inv[c].calls) <= 2
      /\ Len(inv[c].calls) = 2 => inv[c].method = "updateProfile"

\* C21 as the code has it: at most two sequential backend calls per public
\* call, two only in updateProfile (getUser, updateUser) and in
\* resendVerificationEmail (getUser, resend); every other method makes one.
C21_TwoCallsOnlyInUpdateProfileAndResend ==
  \A c \in Callers :
    inv[c].pc # "idle" =>
      /\ Len(inv[c].calls) \in {1, 2}
      /\ Len(inv[c].calls) = 2 =>
           /\ inv[c].method \in {"updateProfile", "resendVerificationEmail"}
           /\ inv[c].calls[1].op = "auth.getUser"
           /\ inv[c].calls[2].op =
                IF inv[c].method = "updateProfile" THEN "auth.updateUser" ELSE "auth.resend"

\* a resendVerificationEmail call succeeded after two backend calls
C21_Witness ==
  \E c \in Callers :
    /\ Settled(c) /\ Succeeds(c)
    /\ inv[c].method = "resendVerificationEmail"
    /\ Len(inv[c].calls) = 2

\* the backend call ended with a structured error or a thrown value
Errored(o) == o.throws \/ StructuredError(o)

\* C22: no retries: once a backend call of a method returns an error or
\* throws, the method issues no further backend call in that invocation and
\* returns one failure Result; no backend operation is issued twice within
\* one invocation.
C22_ErrorEndsInvocationWithFailure ==
  \A c \in Callers :
    inv[c].pc # "idle" =>
      /\ \A k \in DOMAIN inv[c].outs :
           Errored(inv[c].outs[k]) =>
             k = Len(inv[c].calls) /\ Settled(c) /\ Fails(c)
      /\ \A j, k \in DOMAIN inv[c].calls :
           j # k => inv[c].calls[j].op # inv[c].calls[k].op

\* C22 as the code has it: an error or a throw ends the invocation with no
\* further backend call and one Result, a failure except for read's not-found
\* code, which gives success with null; no operation is issued twice.
C22_ErrorEndsInvocation ==
  \A c \in Callers :
    inv[c].pc # "idle" =>
      /\ \A k \in DOMAIN inv[c].outs :
           Errored(inv[c].outs[k]) =>
             /\ k = Len(inv[c].calls)
             /\ Settled(c)
             /\ IF inv[c].method = "read" /\ StructuredError(inv[c].outs[k])
                     /\ inv[c].outs[k].resp.error.code = "PGRST116"
                  THEN SucceedsWith(c, Null)
                  ELSE Fails(c)
      /\ \A j, k \in DOMAIN inv[c].calls :
           j # k => inv[c].calls[j].op # inv[c].calls[k].op

\* an updateProfile whose write was answered with an error settled as a
\* failure after its two calls
C22_Witness ==
  \E c \in Callers :
    /\ Settled(c) /\ Fails(c)
    /\ inv[c].method = "updateProfile"
    /\ Len(inv[c].calls) = 2
    /\ Errored(inv[c].outs[2])

\* C23: assuming every backend call eventually returns or throws, every
\* invocation of every public method eventually resolves with one Result: it
\* waits on nothing but its own backend calls and does not loop.
C23_EveryInvocationResolves ==
  \A c \in Callers :
    (inv[c].pc = "await") ~>
      (Resolved(c) /\ (isSuccess(Result(c)) \/ isFailure(Result(c))))

\* an updateProfile call resolved with a success after both of its backend
\* calls had ended
C23_Witness ==
  \E c \in Callers :
    /\ Resolved(c) /\ isSuccess(Result(c))
    /\ inv[c].method = "updateProfile"
    /\ Len(inv[c].outs) = 2

\* C24: after construction the profile and the record collaborator hold the
\* facade's backend connection handle, the authentication collaborator holds a
\* different handle, and no public method reassigns them: every backend call of
\* every invocation goes out on the handle its service got at construction.
C24_HandlesFixedAtConstruction ==
  /\ serviceManager.userService.supabase = serviceManager.supabase
  /\ serviceManager.crudService.supabase = serviceManager.supabase
  /\ serviceManager.authService.supabase # serviceManager.supabase
  /\ \A c \in Callers :
       inv[c].pc # "idle" =>
         \A k \in DOMAIN inv[c].calls :
           inv[c].calls[k].handle =
             IF inv[c].target = "authService"
                  \/ (inv[c].target = "serviceManager"
                        /\ Collaborator(inv[c].method) = "authService")
               THEN serviceManager.authService.supabase
               ELSE serviceManager.supabase

\* a facade updateProfile made both calls on the facade's handle after a
\* session had been opened on the authentication collaborator's handle
C24_Witness ==
  \E c \in Callers :
    /\ Settled(c) /\ inv[c].target = "serviceManager"
    /\ inv[c].method = "updateProfile"
    /\ Len(inv[c].calls) = 2
    /\ \A k \in 1..2 : inv[c].calls[k].handle = serviceManager.supabase
    /\ session[serviceManager.authService.supabase]

\* C25: after a facade signIn succeeds, with no signOut in between, a facade
\* getCurrentUser returns success with that signed-in user (not null) and a
\* facade updateProfile does not fail with "No authenticated user found".
C25_SignInVisibleToFacadeCalls ==
  \A c \in Callers :
    (Settled(c) /\ "signedIn" \in DOMAIN inv[c]) =>
      IF inv[c].method = "getCurrentUser"
        THEN /\ Succeeds(c)
             /\ Result(c).data # Null
             /\ Result(c).data.id = inv[c].signedIn.id
        ELSE ~FailsWith(c, "No authenticated user found")

\* C26: read(table, id) returns success with null only when the table holds no
\* row whose id equals id: whenever at least one such row exists and the
\* backend is reachable, read does not report the record as absent.
C26_ReadNullOnlyWhenNoRow ==
  \A c \in Callers :
    (Settled(c) /\ inv[c].method = "read" /\ SucceedsWith(c, Null)) =>
      ~ \E r \in rows : r.id = inv[c].args.id

\* C27: the not-found normalization is confined to read: update with no row
\* matching id returns a failure carrying the backend's message, never success
\* with null, and create (like delete and list) answered with the not-found
\* code returns a failure too.
C27_NotFoundIsFailureOutsideRead ==
  \A c \in Callers :
    (Settled(c) /\ inv[c].method \in CrudMethods \ {"read"}
       /\ StructuredError(LastOut(c))
       /\ LastOut(c).resp.error.code = "PGRST116") =>
      /\ FailsWith(c, LastOut(c).resp.error.message)
      /\ ~Succeeds(c)

\* an update of an id no row carries failed with the backend's not-found message
C27_Witness ==
  \E c \in Callers :
    /\ Settled(c) /\ inv[c].method = "update"
    /\ ~ \E r \in rows : r.id = inv[c].args.id
    /\ StructuredError(LastOut(c))
    /\ LastOut(c).resp.error.code = "PGRST116"
    /\ FailsWith(c, NotFound.message)

\* ---- updateProfile called twice in sequence with the same updates ----

\* the caller of an updateProfile that succeeded makes the same call again; what
\* the first call stored and returned stays on record beside the second
updateProfileAgain(c) ==
  /\ inv[c].pc = "done"
  /\ inv[c].method = "updateProfile"
  /\ inv[c].settled.status = "resolved"
  /\ isSuccess(inv[c].settled.value)
  /\ "first" \notin DOMAIN inv[c]
  /\ LET i == inv[c] IN
     inv' = [inv EXCEPT ![c] =
               [pc |-> "await", target |-> i.target, method |-> "updateProfile",
                args |-> i.args,
                calls |-> <<FirstCall(ServiceOf(i.target, "updateProfile"),
                                      "updateProfile", i.args)>>,
                outs |-> <<>>, settled |-> Null,
                first |-> [stored |-> account.user_metadata,
                           user |-> i.settled.value.data]]]
  /\ UNCHANGED <<account, session, rows>>

NextTwice ==
  \E c \in Callers :
    \/ \E t \in Targets, u \in RuntimeUpdates : updateProfile(c, t, u)
    \/ updateProfileAgain(c)
    \/ BackendAnswers(c)
    \/ Collect(c)

SpecTwice == Init /\ [][NextTwice]_vars

\* C28: updateProfile is idempotent for a single caller: with an account
\* current and no other writer, a second updateProfile(u) right after the first
\* leaves the stored metadata as the first left it, and both calls return the
\* same mapped firstName, lastName and avatar.
C28_UpdateProfileIdempotent ==
  \A c \in Callers :
    (Settled(c) /\ "first" \in DOMAIN inv[c]) =>
      /\ Succeeds(c)
      /\ account.user_metadata = inv[c].first.stored
      /\ \A k \in CamelKeys : Result(c).data[k] = inv[c].first.user[k]

\* a second updateProfile with updates that changed a stored key the first
\* time settled with the metadata as the first call left it
C28_Witness ==
  \E c \in Callers :
    /\ Settled(c) /\ "first" \in DOMAIN inv[c] /\ Succeeds(c)
    /\ account.user_metadata = inv[c].first.stored
    /\ inv[c].args.updates = [firstName |-> "Bea", lastName |-> "Lee"]
    /\ Result(c).data.firstName = "Bea"
    /\ "avatar_url" \in DOMAIN account.user_metadata

\* ---- list called again with the same filters written another way ----

\* the filters of the model and the two-key filter with its keys in the other order
ListFilters == Filters \cup {[entries |-> << <<"b", "y">>, <<"a", "x">> >>]}

\* two filter arguments that hold the same constraints
SameFilters(f, g) ==
  {FilterEntries(f)[i] : i \in DOMAIN FilterEntries(f)} =
    {FilterEntries(g)[i] : i \in DOMAIN FilterEntries(g)}

\* the caller of a list that settled lists the same table again, with the same
\* constraints written another way; the first result stays on record
listAgain(c, filters) ==
  /\ inv[c].pc = "done"
  /\ inv[c].method = "list"
  /\ inv[c].settled.status = "resolved"
  /\ "before" \notin DOMAIN inv[c]
  /\ filters # inv[c].args.filters
  /\ SameFilters(filters, inv[c].args.filters)
  /\ LET i == inv[c]
         args == [filters |-> filters, table |-> i.args.table]
     IN inv' = [inv EXCEPT ![c] =
                  [pc |-> "await", target |-> i.target, method |-> "list", args |-> args,
                   calls |-> <<FirstCall(ServiceOf(i.target, "list"), "list", args)>>,
                   outs |-> <<>>, settled |-> Null,
                   before |-> [filters |-> i.args.filters, result |-> i.settled.value]]]
  /\ UNCHANGED <<account, session, rows>>

NextList ==
  \E c \in Callers :
    \/ \E t \in Targets, tb \in Tables, d \in RowData : create(c, t, tb, d)
    \/ \E t \in Targets, tb \in Tables, id \in RowIds : delete(c, t, tb, id)
    \/ \E t \in Targets, tb \in Tables, f \in ListFilters : list(c, t, tb, f)
    \/ \E f \in ListFilters : listAgain(c, f)
    \/ BackendAnswers(c)
    \/ Collect(c)

SpecList == Init /\ [][NextList]_vars

\* C29: list(table, {}) returns the same result as list(table) with no
\* filters, and with several filter keys the result does not depend on the
\* order in which the keys are applied.
C29_ListIgnoresFilterSpelling ==
  \A c \in Callers :
    (Settled(c) /\ "before" \in DOMAIN inv[c]) =>
      /\ Resolved(c)
      /\ Result(c) = inv[c].before.result

\* with a row matching only one of two filters stored, a list with the two
\* keys in one order returned the one row the list with the other order had
C29_Witness ==
  \E c \in Callers :
    /\ Settled(c) /\ "before" \in DOMAIN inv[c] /\ Succeeds(c)
    /\ Result(c) = inv[c].before.result
    /\ Len(FilterEntries(inv[c].args.filters)) = 2
    /\ \E r \in rows : ~MatchesAll(r, inv[c].args.filters)
    /\ Len(Result(c).data.array) = 1

\* C30: in every successful signUp result needsVerification is the negation
\* of user.emailVerified, and in every successful signIn result session.user is
\* the same mapped user as the result's user field.
C30_ResultFieldsAgree ==
  \A c \in Callers :
    (Settled(c) /\ Succeeds(c)) =>
      /\ inv[c].method = "signUp" =>
           Result(c).data.needsVerification = ~Result(c).data.user.emailVerified
      /\ inv[c].method = "signIn" =>
           Result(c).data.session.user = Result(c).data.user

\* a signIn succeeded with the one mapped user both as user and as session.user
C30_Witness ==
  \E c \in Callers :
    /\ Settled(c) /\ Succeeds(c)
    /\ inv[c].method = "signIn"
    /\ Result(c).data.session.user = Result(c).data.user
    /\ Result(c).data.user.email = inv[c].args.email

====
